---- MODULE Spec2Model ----
(***************************************************************************)
(* A model of src/src/stream.rs of http_req: the producer/consumer        *)
(* pipeline (ThreadSend / ThreadReceive over an mpsc channel, driven by   *)
(* execute_with_deadline), the head scanner read_head and the connector   *)
(* connect_with_timeout.                                                   *)
(*                                                                         *)
(* Time is a discrete clock `now`; `Instant::now()` reads it.  Bytes are   *)
(* drawn from the alphabet {LF, CR, X}.  Each component has its own       *)
(* specification: Spec (pipeline), SpecHead, SpecConnect (Stream::new and  *)
(* the Stream it returns).                                                 *)
(***************************************************************************)
EXTENDS Integers, Sequences, FiniteSets, TLC

\* ---------------------------------------------------------------- bounds
\* The clock runs from 0 to MaxTime.
MaxTime == 2
\* The longest byte source fed to the producer of the pipeline.
MaxInput == 3
\* The block size of send_all (BUF_SIZE = 16 * 1000 at stream.rs:12), scaled
\* down so that sources of MaxInput bytes are split into several blocks.
BUF_SIZE == 2
\* The longest byte source given to read_head.
MaxHead == 5
\* The longest address sequence name resolution yields.
MaxAddrs == 3
\* func's calls are counted up to this many.
MaxCalls == 3
\* The longest input of the pipeline when termination is checked.
MaxLiveInput == 1

\* ------------------------------------------------------------- byte data
LF == 10
CR == 13
X == 120
CR_LF == <<CR, LF>>
Byte == {LF, CR, X}
\* The bytes of the sources fed to the pipeline, which does not look at them.
Payload == {CR, X}

Min(a, b) == IF a < b THEN a ELSE b
SeqsUpTo(S, n) == UNION {[1..k -> S] : k \in 0..n}
Take(s, k) == SubSeq(s, 1, k)
Drop(s, k) == SubSeq(s, k + 1, Len(s))

RECURSIVE Concat(_)
Concat(ss) == IF ss = <<>> THEN <<>> ELSE Head(ss) \o Concat(Tail(ss))

VARIABLES
    \* the clock and the consumer's deadline
    now, deadline,
    \* producer thread: which closure it runs, the bytes its reader has left,
    \* the parts the test closure has left, its position
    kind, input, src, parts, pcP,
    \* the channel: queued chunks; the sender is dropped when pcP # "run"
    queue, rcvDropped,
    \* consumer thread: the operation called, its position, the remaining time
    \* handed to recv_timeout, recv_timeout's own deadline, the chunk received,
    \* the sink, the local/returned result
    op, pcC, rem, recvDl, data, sink, sinkOk, result,
    \* history: every chunk sent, in order; the clock when the sender was
    \* dropped; whether a read of the source failed; how many chunks the
    \* consumer took off the channel; whether the deadline had passed at the
    \* call; whether a write to the sink failed
    sent, prodDoneAt, readErr, nRecv, lateCall, writeErr,
    \* the lengths the progress callback of receive_all_update was called
    \* with, in order; the clock read by the last pass of
    \* execute_with_deadline's loop head; whether func's last call returned true
    updates, callAt, completed,
    \* how many times execute_with_deadline has called func, counted up to
    \* MaxCalls
    funcCalls,
    \* read_head: the source's whole content, what the reader has left, the
    \* accumulated buf, the position, whether read_until returned Err
    hInput, hSrc, hBuf, pcH, hErr,
    \* connect_with_timeout: what resolution yields (whether it fails, and the
    \* outcome a connect to each candidate has), the loop index, the position,
    \* the candidates attempted in order, the value returned; Stream::new's
    \* connect_timeout argument ("Some" / "None") and the last error kept by
    \* TcpStream::connect
    resolves, addrs, idx, pcN, attempts, connRes, connect_timeout, lastErr,
    \* the Stream value: its variant, the socket's read and write timeouts,
    \* the last call made on it, and (history) whether it ever was Https
    stream, readTimeout, writeTimeout, lastCall, everHttps

pipeVars == <<now, deadline, kind, input, src, parts, pcP, queue, rcvDropped,
              op, pcC, rem, recvDl, data, sink, sinkOk, result,
              sent, prodDoneAt, readErr, nRecv, lateCall, writeErr,
              updates, callAt, completed, funcCalls>>

headVars == <<hInput, hSrc, hBuf, pcH, hErr>>

connVars == <<resolves, addrs, idx, pcN, attempts, connRes, connect_timeout,
              lastErr>>

streamVars == <<stream, readTimeout, writeTimeout, lastCall, everHttps>>

vars == <<pipeVars, headVars, connVars, streamVars>>

\* What an action of one component leaves alone in the others.
nonPipeVars == <<headVars, connVars, streamVars>>
nonHeadVars == <<pipeVars, connVars, streamVars>>
nonConnVars == <<pipeVars, headVars, streamVars>>
nonStreamVars == <<pipeVars, headVars, connVars>>

\* The sending half is dropped when the producer's closure has ended
\* (returned or panicked).
SenderDropped == pcP # "run"

\* ------------------------------------------------------------ the clock
\* Instant::now() is monotonic; time passes between any two steps. The clock
\* is followed up to MaxTime and, while recv_timeout waits, up to the end of
\* its timeout.
Tick ==
    /\ \/ now < MaxTime
       \/ pcC = "wait" /\ now < recvDl
    /\ now' = now + 1
    /\ UNCHANGED nonPipeVars
    /\ UNCHANGED <<updates, callAt, completed, funcCalls>>
    /\ UNCHANGED <<deadline, kind, input, src, parts, pcP, queue, rcvDropped,
                   op, pcC, rem, recvDl, data, sink, sinkOk, result,
                   sent, prodDoneAt, readErr, nRecv, lateCall, writeErr>>

\* ------------------------------------------------------------- producer
\* Mutant of SenderSend: the chunk jumps the queue.
SenderSend_Front(chunk) ==
    IF rcvDropped
    THEN /\ pcP' = "panicked"
         /\ prodDoneAt' = now
         /\ UNCHANGED <<queue, sent>>
    ELSE /\ queue' = <<chunk>> \o queue
         /\ sent' = Append(sent, chunk)
         /\ UNCHANGED <<pcP, prodDoneAt>>

\* sender.send(chunk).unwrap(): queues the chunk; with the receiving half
\* dropped send returns Err and unwrap panics, which ends the thread.
SenderSend(chunk) ==
    IF rcvDropped
    THEN /\ pcP' = "panicked"
         /\ prodDoneAt' = now
         /\ UNCHANGED <<queue, sent>>
    ELSE /\ queue' = Append(queue, chunk)
         /\ sent' = Append(sent, chunk)
         /\ UNCHANGED <<pcP, prodDoneAt>>

\* Mutant of FilledBuf: the slice is one byte short.
FilledBuf_OneShort(s, len) == Take(s, len - 1)

\* buf[..len].to_vec(): the chunk made of a read of len bytes.
FilledBuf(s, len) == Take(s, len)

\* The producer thread is in send_all: at once in the closures that only call
\* send_all, after send_head in the one that calls both.
InSendAll ==
    /\ pcP = "run"
    /\ \/ kind = "send_all"
       \/ kind = "head_all" /\ pcH = "sent"

\* Mutant of ReadLens: a read may return nothing, or more than the buffer.
ReadLens_Any(s) == 0..Len(s)

\* self.read(&mut buf) returning Ok(len) with len > 0, buf being BUF_SIZE long:
\* a read returns between 1 and BUF_SIZE of the bytes the source has left.
ReadLens(s) == 1..Min(BUF_SIZE, Len(s))

\* One iteration of send_all's loop with self.read returning Ok(len), len > 0.
SendAll_Read ==
    /\ InSendAll
    /\ src # <<>>
    /\ \E len \in ReadLens(src) :
          /\ src' = Drop(src, len)
          /\ SenderSend(FilledBuf(src, len))
    /\ UNCHANGED nonPipeVars
    /\ UNCHANGED <<updates, callAt, completed, funcCalls>>
    /\ UNCHANGED <<now, deadline, kind, input, parts, rcvDropped,
                   op, pcC, rem, recvDl, data, sink, sinkOk, result,
                   readErr, nRecv, lateCall, writeErr>>

\* self.read returning Ok(0) at end of input: break; the closure ends and the
\* sender is dropped.
SendAll_Eof ==
    /\ InSendAll
    /\ src = <<>>
    /\ pcP' = "done"
    /\ prodDoneAt' = now
    /\ UNCHANGED nonPipeVars
    /\ UNCHANGED <<updates, callAt, completed, funcCalls>>
    /\ UNCHANGED <<now, deadline, kind, input, src, parts, queue, rcvDropped,
                   op, pcC, rem, recvDl, data, sink, sinkOk, result,
                   sent, readErr, nRecv, lateCall, writeErr>>

\* Mutant of OnReadErr: the bytes the failed read left behind are sent.
OnReadErr_SendsRest(chunks, s) == Append(chunks, s)

\* The arm `Err(_) => break` of send_all: what has been sent stays as it is.
OnReadErr(chunks, s) == chunks

\* self.read returning Err(_): break, nothing is sent.
SendAll_Err ==
    /\ InSendAll
    /\ pcP' = "done"
    /\ prodDoneAt' = now
    /\ readErr' = TRUE
    /\ sent' = OnReadErr(sent, src)
    /\ queue' = OnReadErr(queue, src)
    /\ UNCHANGED nonPipeVars
    /\ UNCHANGED <<updates, callAt, completed, funcCalls>>
    /\ UNCHANGED <<now, deadline, kind, input, src, parts, rcvDropped,
                   op, pcC, rem, recvDl, data, sink, sinkOk, result,
                   nRecv, lateCall, writeErr>>

\* The closure of the tests thread_receive_receive / thread_receive_receive_all:
\* the response cut in two parts, each sent as one chunk.
TestParts(s, k) == <<Take(s, k), Drop(s, k)>>

Parts_Send ==
    /\ pcP = "run" /\ kind = "parts"
    /\ parts # <<>>
    /\ parts' = Tail(parts)
    /\ SenderSend(Head(parts))
    /\ UNCHANGED nonPipeVars
    /\ UNCHANGED <<updates, callAt, completed, funcCalls>>
    /\ UNCHANGED <<now, deadline, kind, input, src, rcvDropped,
                   op, pcC, rem, recvDl, data, sink, sinkOk, result,
                   readErr, nRecv, lateCall, writeErr>>

Parts_End ==
    /\ pcP = "run" /\ kind = "parts"
    /\ parts = <<>>
    /\ pcP' = "done"
    /\ prodDoneAt' = now
    /\ UNCHANGED nonPipeVars
    /\ UNCHANGED <<updates, callAt, completed, funcCalls>>
    /\ UNCHANGED <<now, deadline, kind, input, src, parts, queue, rcvDropped,
                   op, pcC, rem, recvDl, data, sink, sinkOk, result,
                   sent, readErr, nRecv, lateCall, writeErr>>

\* ------------------------------------------------------------- consumer
\* Mutant of Remaining: the distance between the two instants instead of the
\* saturating difference.
Remaining_Distance(d, n) == IF d < n THEN n - d ELSE d - n

\* deadline - now on Instants is duration_since, which saturates at zero
\* (Rust 1.60 and later).
Remaining(d, n) == IF d < n THEN 0 ELSE d - n

\* Mutant of DeadlineExceeded: the loop also breaks at the deadline itself.
DeadlineExceeded_AtDeadline(d, n) == d <= n

\* execute_with_deadline's test `deadline < now`.
DeadlineExceeded(d, n) == d < n

\* Mutant of RecvTimeout: a dropped sender is reported before the chunks
\* still queued are delivered.
RecvTimeout_DisconnectFirst(q, dropped, n, dl) ==
    IF dropped THEN "Disconnected"
    ELSE IF q # <<>> THEN "Data"
    ELSE IF n >= dl THEN "Timeout"
    ELSE "Block"

\* Mutant of RecvTimeout: recv, which has no timeout.
RecvTimeout_NoTimeout(q, dropped, n, dl) ==
    IF q # <<>> THEN "Data"
    ELSE IF dropped THEN "Disconnected"
    ELSE "Block"

\* receiver.recv_timeout(timeout) as seen at one instant: a queued chunk is
\* delivered first; an empty channel whose sender is dropped is Disconnected;
\* an empty channel past recv_timeout's own deadline is Timeout; otherwise the
\* call keeps blocking.
RecvTimeout(q, dropped, n, dl) ==
    IF q # <<>> THEN "Data"
    ELSE IF dropped THEN "Disconnected"
    ELSE IF n >= dl THEN "Timeout"
    ELSE "Block"

\* From<RecvTimeoutError> for Error, applied by `?` in receive: both kinds
\* of RecvTimeoutError become Error::Timeout.
FromRecvTimeoutError(e) == "Timeout"

\* receive, line 162: let now = Instant::now(); the duration deadline - now.
Receive_Now ==
    /\ pcC = "call" /\ op = "receive"
    /\ rem' = Remaining(deadline, now)
    /\ lateCall' = (deadline < now)
    /\ pcC' = "recv"
    /\ UNCHANGED nonPipeVars
    /\ UNCHANGED <<updates, callAt, completed, funcCalls>>
    /\ UNCHANGED <<now, deadline, kind, input, src, parts, pcP, queue, rcvDropped,
                   op, recvDl, data, sink, sinkOk, result,
                   sent, prodDoneAt, readErr, nRecv, writeErr>>

\* receive_all, line 173, and receive_all_update, line 205:
\* let mut result = Ok(()).
ReceiveAll_Start ==
    /\ pcC = "call" /\ op \in {"receive_all", "receive_all_update"}
    /\ result' = "Ok"
    /\ lateCall' = (deadline < now)
    /\ pcC' = "loop"
    /\ UNCHANGED nonPipeVars
    /\ UNCHANGED <<updates, callAt, completed, funcCalls>>
    /\ UNCHANGED <<now, deadline, kind, input, src, parts, pcP, queue, rcvDropped,
                   op, rem, recvDl, data, sink, sinkOk,
                   sent, prodDoneAt, readErr, nRecv, writeErr>>

\* Where func starts: the closures of receive_all and receive_all_update
\* start with recv_timeout; the closures of the test fn_execute_with_deadline
\* are any func.
FuncEntry(o) == IF o = "execute" THEN "func" ELSE "recv"

\* func(remaining_time) of the test fn_execute_with_deadline returns, true or
\* false; on true the loop breaks.
Func_Return ==
    /\ pcC = "func"
    /\ \E complete \in BOOLEAN :
          /\ completed' = complete
          /\ pcC' = IF complete THEN "done" ELSE "loop"
    /\ UNCHANGED nonPipeVars
    /\ UNCHANGED <<now, deadline, kind, input, src, parts, pcP, queue, rcvDropped,
                   op, rem, recvDl, data, sink, sinkOk, result,
                   sent, prodDoneAt, readErr, nRecv, lateCall, writeErr,
                   updates, callAt, funcCalls>>

\* execute_with_deadline, one pass of the loop head: now is read, the
\* remaining time computed; the loop breaks when the deadline is exceeded,
\* else func(remaining_time) is called.
ExecuteWithDeadline ==
    /\ pcC = "loop"
    /\ callAt' = now
    /\ rem' = Remaining(deadline, now)
    /\ IF DeadlineExceeded(deadline, now)
       THEN pcC' = "done" /\ UNCHANGED funcCalls
       ELSE pcC' = FuncEntry(op) /\ funcCalls' = Min(funcCalls + 1, MaxCalls)
    /\ UNCHANGED nonPipeVars
    /\ UNCHANGED <<updates, completed>>
    /\ UNCHANGED <<now, deadline, kind, input, src, parts, pcP, queue, rcvDropped,
                   op, recvDl, data, sink, sinkOk, result,
                   sent, prodDoneAt, readErr, nRecv, lateCall, writeErr>>

\* recv_timeout(remaining) is entered: its own deadline is now + remaining.
RecvTimeout_Enter ==
    /\ pcC = "recv"
    /\ recvDl' = now + rem
    /\ pcC' = "wait"
    /\ UNCHANGED nonPipeVars
    /\ UNCHANGED <<updates, callAt, completed, funcCalls>>
    /\ UNCHANGED <<now, deadline, kind, input, src, parts, pcP, queue, rcvDropped,
                   op, rem, data, sink, sinkOk, result,
                   sent, prodDoneAt, readErr, nRecv, lateCall, writeErr>>

\* recv_timeout returns Ok(data): the oldest chunk leaves the channel.
RecvTimeout_Ok ==
    /\ pcC = "wait"
    /\ RecvTimeout(queue, SenderDropped, now, recvDl) = "Data"
    /\ data' = Head(queue)
    /\ queue' = Tail(queue)
    /\ nRecv' = nRecv + 1
    /\ pcC' = "write"
    /\ UNCHANGED nonPipeVars
    /\ UNCHANGED <<updates, callAt, completed, funcCalls>>
    /\ UNCHANGED <<now, deadline, kind, input, src, parts, pcP, rcvDropped,
                   op, rem, recvDl, sink, sinkOk, result,
                   sent, prodDoneAt, readErr, lateCall, writeErr>>

\* What receive_all's closure records for Err(e) of recv_timeout (lines
\* 180-185): Timeout is recorded, Disconnected leaves result as it is.
RecordRecvErr(e, res) == IF e = "Timeout" THEN "Timeout" ELSE res

\* recv_timeout returns Err(e).  receive returns Err(e.into()) through `?`;
\* receive_all's closure records the error and returns true, which ends the
\* loop.
RecvTimeout_Err ==
    /\ pcC = "wait"
    /\ LET e == RecvTimeout(queue, SenderDropped, now, recvDl) IN
          /\ e \in {"Disconnected", "Timeout"}
          /\ result' = IF op = "receive" THEN FromRecvTimeoutError(e)
                       ELSE RecordRecvErr(e, result)
    /\ pcC' = "done"
    /\ completed' = (op # "receive")
    /\ UNCHANGED nonPipeVars
    /\ UNCHANGED <<updates, callAt, funcCalls>>
    /\ UNCHANGED <<now, deadline, kind, input, src, parts, pcP, queue, rcvDropped,
                   op, rem, recvDl, data, sink, sinkOk,
                   sent, prodDoneAt, readErr, nRecv, lateCall, writeErr>>

\* Mutant of AfterWrite: receive goes on receiving like receive_all.
AfterWrite_Loop(o) == "loop"

\* Where the consumer goes after write_all returned Ok: receive returns,
\* receive_all's closure returns is_complete = false and the loop goes on.
AfterWrite(o) == IF o = "receive" THEN "done" ELSE "loop"

\* Mutant of Update: the callback is told nothing.
Update_Never(o, ups, chunk) == ups

\* update(data_read.len()), line 225, which only receive_all_update has: it
\* comes after the write, whatever the write returned.
Update(o, ups, chunk) ==
    IF o = "receive_all_update" THEN Append(ups, Len(chunk)) ELSE ups

\* self.write_all(&data_read) returns Ok: the whole chunk is in the sink; the
\* closure returns is_complete = false.
WriteAll_Ok ==
    /\ pcC = "write"
    /\ sink' = sink \o data
    /\ result' = (IF op = "receive" THEN "Ok" ELSE result)
    /\ updates' = Update(op, updates, data)
    /\ pcC' = AfterWrite(op)
    /\ UNCHANGED nonPipeVars
    /\ UNCHANGED <<callAt, completed, funcCalls>>
    /\ UNCHANGED <<now, deadline, kind, input, src, parts, pcP, queue, rcvDropped,
                   op, rem, recvDl, data, sinkOk,
                   sent, prodDoneAt, readErr, nRecv, lateCall, writeErr>>

\* self.write_all(&data_read) returns Err: a strict prefix of the chunk may
\* have been written; receive returns Error::IO; the closures record
\* Error::IO and return is_complete = true.
WriteAll_Err ==
    /\ pcC = "write"
    /\ ~sinkOk
    /\ data # <<>>
    /\ \E k \in 0..(Len(data) - 1) : sink' = sink \o Take(data, k)
    /\ result' = "IO"
    /\ writeErr' = TRUE
    /\ updates' = Update(op, updates, data)
    /\ completed' = (op # "receive")
    /\ pcC' = "done"
    /\ UNCHANGED nonPipeVars
    /\ UNCHANGED <<callAt, funcCalls>>
    /\ UNCHANGED <<now, deadline, kind, input, src, parts, pcP, queue, rcvDropped,
                   op, rem, recvDl, data, sinkOk,
                   sent, prodDoneAt, readErr, nRecv, lateCall>>

\* After the operation returned, the caller lets the receiving half go out of
\* scope.
DropReceiver ==
    /\ pcC = "done"
    /\ ~rcvDropped
    /\ rcvDropped' = TRUE
    /\ UNCHANGED nonPipeVars
    /\ UNCHANGED <<updates, callAt, completed, funcCalls>>
    /\ UNCHANGED <<now, deadline, kind, input, src, parts, pcP, queue,
                   op, pcC, rem, recvDl, data, sink, sinkOk, result,
                   sent, prodDoneAt, readErr, nRecv, lateCall, writeErr>>

\* ------------------------------------------------------------ read_head
\* Mutant of ReadUntil: the line is taken without its LF, as a line iterator
\* would give it.
ReadUntil_WithoutLF(s) ==
    IF \E i \in 1..Len(s) : s[i] = LF
    THEN (CHOOSE i \in 1..Len(s) : s[i] = LF /\ \A j \in 1..(i - 1) : s[j] # LF) - 1
    ELSE Len(s)

\* reader.read_until(LF, &mut buf) returning Ok(len): the bytes up to and
\* including the first LF of what the reader has left, or all of it when it
\* holds no LF (0 at end of input).
ReadUntil(s) ==
    IF \E i \in 1..Len(s) : s[i] = LF
    THEN CHOOSE i \in 1..Len(s) : s[i] = LF /\ \A j \in 1..(i - 1) : s[j] # LF
    ELSE Len(s)

\* Mutant of IsBlankLine: any line ending in CR LF counts as blank.
IsBlankLine_AnyCrLf(buf, len) ==
    /\ len >= 2
    /\ SubSeq(buf, Len(buf) - 1, Len(buf)) = CR_LF

\* read_head's test of the line just read: len == 2 && &buf[full_len - 2..] == CR_LF.
IsBlankLine(buf, len) ==
    /\ len = 2
    /\ SubSeq(buf, Len(buf) - 1, Len(buf)) = CR_LF

\* One pass of read_head's loop with read_until returning Ok(len): the line is
\* appended to buf; the loop breaks on Ok(0) and on a blank line.
ReadHead_Line ==
    /\ pcH = "run"
    /\ LET len == ReadUntil(hSrc)
           buf == hBuf \o Take(hSrc, len)
       IN  /\ hBuf' = buf
           /\ hSrc' = Drop(hSrc, len)
           /\ pcH' = IF len = 0 \/ IsBlankLine(buf, len) THEN "done" ELSE "run"
    /\ UNCHANGED <<hInput, hErr>>
    /\ UNCHANGED nonHeadVars

\* read_until returning Err(_): the bytes of the line it had already taken
\* (none of them an LF) stay in buf; the loop breaks and buf is returned.
ReadHead_Err ==
    /\ pcH = "run"
    /\ \E j \in 0..Len(hSrc) :
          /\ \A i \in 1..j : hSrc[i] # LF
          /\ hBuf' = hBuf \o Take(hSrc, j)
          /\ hSrc' = Drop(hSrc, j)
    /\ hErr' = TRUE
    /\ pcH' = "done"
    /\ UNCHANGED hInput
    /\ UNCHANGED nonHeadVars

\* Mutant of ReaderAfterHead: what read_head left in the reader is lost.
ReaderAfterHead_Lost(rest) == <<>>

\* send_all is called on the reader send_head was called on: it reads on from
\* where read_head stopped.
ReaderAfterHead(rest) == rest

\* send_head once read_head has returned: sender.send(buf).unwrap().
SendHead ==
    /\ kind = "head_all" /\ pcP = "run" /\ pcH = "done"
    /\ SenderSend(hBuf)
    /\ src' = ReaderAfterHead(hSrc)
    /\ pcH' = "sent"
    /\ UNCHANGED <<hInput, hSrc, hBuf, hErr>>
    /\ UNCHANGED <<connVars, streamVars>>
    /\ UNCHANGED <<updates, callAt, completed, funcCalls>>
    /\ UNCHANGED <<now, deadline, kind, input, parts, rcvDropped,
                   op, pcC, rem, recvDl, data, sink, sinkOk, result,
                   readErr, nRecv, lateCall, writeErr>>

\* ------------------------------------------------- connect_with_timeout
\* What TcpStream::connect_timeout does on a candidate: it accepts, or fails
\* with ErrorKind::TimedOut, or fails with another kind of error.
Outcome == {"Accept", "TimedOut", "Refused", "Unreachable"}

NoRes == [tag |-> "none", kind |-> "none", at |-> -1]
OkRes(i) == [tag |-> "Ok", kind |-> "none", at |-> i]
ErrRes(k, i) == [tag |-> "Err", kind |-> k, at |-> i]

\* (host, port).to_socket_addrs()?.collect() and addrs.len(): a failed
\* resolution is returned at once.
Connect_Resolve ==
    /\ pcN = "resolve"
    /\ IF resolves
       THEN pcN' = "loop" /\ UNCHANGED connRes
       ELSE pcN' = "done" /\ connRes' = ErrRes("Resolve", -1)
    /\ UNCHANGED <<resolves, addrs, idx, attempts, connect_timeout, lastErr>>
    /\ UNCHANGED nonConnVars

\* Mutant of ReturnsErr: the first error of any kind is returned.
ReturnsErr_Always(errKind, i, count) == TRUE

\* Mutant of ReturnsErr: a timeout falls back to the next candidate like any
\* other error.
ReturnsErr_LastOnly(errKind, i, count) == i + 1 = count

\* Mutant of ReturnsErr: only a timeout is returned from inside the loop.
ReturnsErr_TimeoutOnly(errKind, i, count) == errKind = "TimedOut"

\* The match on err.kind() of a failed attempt at index i of count
\* candidates: TRUE when the error is returned.
ReturnsErr(errKind, i, count) == errKind = "TimedOut" \/ i + 1 = count

\* One pass of the for loop: connect_timeout on candidate idx.  Ok(stream) is
\* returned (Stream::new wraps it as Stream::Http); a TimedOut error is
\* returned; another error is returned only for the last candidate.
Connect_Attempt ==
    /\ pcN = "loop" /\ connect_timeout = "Some"
    /\ idx < Len(addrs)
    /\ attempts' = Append(attempts, idx)
    /\ LET o == addrs[idx + 1] IN
          IF o = "Accept"
          THEN /\ connRes' = OkRes(idx)
               /\ pcN' = "done"
               /\ UNCHANGED idx
          ELSE IF ReturnsErr(o, idx, Len(addrs))
          THEN /\ connRes' = ErrRes(o, idx)
               /\ pcN' = "done"
               /\ UNCHANGED idx
          ELSE /\ idx' = idx + 1
               /\ UNCHANGED <<connRes, pcN>>
    /\ UNCHANGED <<resolves, addrs, connect_timeout, lastErr>>
    /\ UNCHANGED nonConnVars

\* Mutant of NoAddressError: an error of an unspecific kind.
NoAddressError_Other == ErrRes("Other", -1)

\* io::Error::new(io::ErrorKind::AddrNotAvailable, "Could not resolve address
\* for ..."): it names no candidate.
NoAddressError == ErrRes("AddrNotAvailable", -1)

\* The loop ran out of candidates without returning, which happens only for
\* an empty address sequence: the error above is returned.
Connect_NoAddress ==
    /\ pcN = "loop" /\ connect_timeout = "Some"
    /\ idx >= Len(addrs)
    /\ connRes' = NoAddressError
    /\ pcN' = "done"
    /\ UNCHANGED <<resolves, addrs, idx, attempts, connect_timeout, lastErr>>
    /\ UNCHANGED nonConnVars

\* Stream::new with connect_timeout = None: TcpStream::connect((host, port))
\* tries every candidate in order, returns the first connection, and keeps
\* the last error otherwise.
StdConnect_Attempt ==
    /\ pcN = "loop" /\ connect_timeout = "None"
    /\ idx < Len(addrs)
    /\ attempts' = Append(attempts, idx)
    /\ LET o == addrs[idx + 1] IN
          IF o = "Accept"
          THEN /\ connRes' = OkRes(idx)
               /\ pcN' = "done"
               /\ UNCHANGED <<idx, lastErr>>
          ELSE /\ lastErr' = ErrRes(o, idx)
               /\ idx' = idx + 1
               /\ UNCHANGED <<connRes, pcN>>
    /\ UNCHANGED <<resolves, addrs, connect_timeout>>
    /\ UNCHANGED nonConnVars

\* TcpStream::connect after the last candidate: the last error, or
\* InvalidInput "could not resolve to any addresses" when there was none.
StdConnect_End ==
    /\ pcN = "loop" /\ connect_timeout = "None"
    /\ idx >= Len(addrs)
    /\ connRes' = IF lastErr = NoRes THEN ErrRes("InvalidInput", -1) ELSE lastErr
    /\ pcN' = "done"
    /\ UNCHANGED <<resolves, addrs, idx, attempts, connect_timeout, lastErr>>
    /\ UNCHANGED nonConnVars

\* ----------------------------------------------------------------- Stream
NoCall == [name |-> "none", in |-> "none", scheme |-> "none", tls |-> FALSE]
Call(n, v, sch, t) == [name |-> n, in |-> v, scheme |-> sch, tls |-> t]

\* Stream::new returns: Ok(Stream::Http(stream)) for a connection, the
\* connect error otherwise.
Stream_New ==
    /\ pcN = "done"
    /\ stream = "unborn"
    /\ stream' = IF connRes.tag = "Ok" THEN "Http" ELSE "failed"
    /\ lastCall' = Call("new", "unborn", "none", FALSE)
    /\ UNCHANGED <<readTimeout, writeTimeout, everHttps>>
    /\ UNCHANGED nonStreamVars

\* Mutant of TryToHttps: the scheme decides the variant, whatever the stream is.
TryToHttps_ByScheme(variant, scheme, tlsOk) ==
    IF scheme = "https"
    THEN (IF tlsOk THEN "Https" ELSE "dropped")
    ELSE "Http"

\* Stream::try_to_https(stream, uri, root_cert_file_pem): the variant of the
\* Stream returned, or "dropped" when Err is returned, the stream having been
\* moved in.  tlsOk: add_root_cert_file_pem and cnf.connect both succeed.
TryToHttps(variant, scheme, tlsOk) ==
    IF variant = "Http"
    THEN IF scheme = "https"
         THEN (IF tlsOk THEN "Https" ELSE "dropped")
         ELSE "Http"
    ELSE variant

Stream_TryToHttps ==
    /\ stream \in {"Http", "Https"}
    /\ \E scheme \in {"http", "https"}, tlsOk \in BOOLEAN :
          /\ stream' = TryToHttps(stream, scheme, tlsOk)
          /\ lastCall' = Call("try_to_https", stream, scheme, tlsOk)
          /\ everHttps' = (everHttps \/ stream' = "Https")
    /\ UNCHANGED <<readTimeout, writeTimeout>>
    /\ UNCHANGED nonStreamVars

\* set_read_timeout(dur): applied to the socket of the active variant.
Stream_SetReadTimeout ==
    /\ stream \in {"Http", "Https"}
    /\ \E dur \in {"None", "Some"} : readTimeout' = dur
    /\ lastCall' = Call("set_read_timeout", stream, "none", FALSE)
    /\ UNCHANGED <<stream, writeTimeout, everHttps>>
    /\ UNCHANGED nonStreamVars

\* set_write_timeout(dur): applied to the socket of the active variant.
Stream_SetWriteTimeout ==
    /\ stream \in {"Http", "Https"}
    /\ \E dur \in {"None", "Some"} : writeTimeout' = dur
    /\ lastCall' = Call("set_write_timeout", stream, "none", FALSE)
    /\ UNCHANGED <<stream, readTimeout, everHttps>>
    /\ UNCHANGED nonStreamVars

\* read / write / flush dispatch to the active variant and leave it as it is.
Stream_ReadWrite ==
    /\ stream \in {"Http", "Https"}
    /\ \E n \in {"read", "write", "flush"} :
          lastCall' = Call(n, stream, "none", FALSE)
    /\ UNCHANGED <<stream, readTimeout, writeTimeout, everHttps>>
    /\ UNCHANGED nonStreamVars

\* ------------------------------------------------------ specifications
PipeIdle ==
    /\ now = 0 /\ deadline = 0
    /\ kind = "none" /\ input = <<>> /\ src = <<>> /\ parts = <<>>
    /\ pcP = "idle" /\ queue = <<>> /\ rcvDropped = FALSE
    /\ op = "none" /\ pcC = "idle" /\ rem = 0 /\ recvDl = 0
    /\ data = <<>> /\ sink = <<>> /\ sinkOk = TRUE /\ result = "none"
    /\ sent = <<>> /\ prodDoneAt = -1 /\ readErr = FALSE /\ nRecv = 0
    /\ lateCall = FALSE /\ writeErr = FALSE
    /\ updates = <<>> /\ callAt = -1 /\ completed = FALSE /\ funcCalls = 0

HeadIdle ==
    /\ hInput = <<>> /\ hSrc = <<>> /\ hBuf = <<>>
    /\ pcH = "idle" /\ hErr = FALSE

ConnIdle ==
    /\ resolves = TRUE /\ addrs = <<>> /\ idx = 0
    /\ pcN = "idle" /\ attempts = <<>> /\ connRes = NoRes
    /\ connect_timeout = "None" /\ lastErr = NoRes

StreamIdle ==
    /\ stream = "unborn" /\ readTimeout = "None" /\ writeTimeout = "None"
    /\ lastCall = NoCall /\ everHttps = FALSE

\* The pipeline: a producer thread and the consumer's call, from the moment
\* the channel is made.
Init ==
    /\ now = 0
    /\ deadline \in 0..MaxTime
    /\ kind \in {"send_all", "parts"}
    /\ input \in SeqsUpTo(Payload, MaxInput)
    /\ src = (IF kind = "send_all" THEN input ELSE <<>>)
    /\ parts \in (IF kind = "parts"
                  THEN {TestParts(input, k) : k \in 0..Len(input)}
                  ELSE {<<>>})
    /\ pcP = "run"
    /\ queue = <<>>
    /\ rcvDropped = FALSE
    /\ op \in {"receive", "receive_all", "receive_all_update"}
    /\ pcC = "call"
    /\ rem = 0
    /\ recvDl = 0
    /\ data = <<>>
    /\ sink = <<>>
    /\ sinkOk \in BOOLEAN
    /\ result = "none"
    /\ sent = <<>>
    /\ prodDoneAt = -1
    /\ readErr = FALSE
    /\ nRecv = 0
    /\ lateCall = FALSE
    /\ writeErr = FALSE
    /\ updates = <<>>
    /\ callAt = -1
    /\ completed = FALSE
    /\ funcCalls = 0
    /\ HeadIdle
    /\ ConnIdle
    /\ StreamIdle

Next ==
    \/ Tick
    \/ SendAll_Read
    \/ SendAll_Eof
    \/ SendAll_Err
    \/ Parts_Send
    \/ Parts_End
    \/ Receive_Now
    \/ ReceiveAll_Start
    \/ ExecuteWithDeadline
    \/ RecvTimeout_Enter
    \/ RecvTimeout_Ok
    \/ RecvTimeout_Err
    \/ WriteAll_Ok
    \/ WriteAll_Err
    \/ DropReceiver

Spec == Init /\ [][Next]_vars

\* The steps of the thread that called receive, receive_all or
\* receive_all_update, up to the return of the call.
Consumer ==
    \/ Receive_Now
    \/ ReceiveAll_Start
    \/ ExecuteWithDeadline
    \/ RecvTimeout_Enter
    \/ RecvTimeout_Ok
    \/ RecvTimeout_Err
    \/ WriteAll_Ok
    \/ WriteAll_Err

\* The pipeline on the shorter inputs.
InitLive ==
    /\ Init
    /\ Len(input) <= MaxLiveInput

\* The pipeline with time advancing and the consumer's thread being scheduled
\* (its recv_timeout and its sink writes return when they can); nothing is
\* assumed of the producer, which may stall for ever.
SpecLive == InitLive /\ [][Next]_vars /\ WF_vars(Tick) /\ WF_vars(Consumer)

\* read_head on a buffered source of any content.
InitHead ==
    /\ hInput \in SeqsUpTo(Byte, MaxHead)
    /\ hSrc = hInput
    /\ hBuf = <<>>
    /\ pcH = "run"
    /\ hErr = FALSE
    /\ PipeIdle
    /\ ConnIdle
    /\ StreamIdle

NextHead ==
    \/ ReadHead_Line
    \/ ReadHead_Err

SpecHead == InitHead /\ [][NextHead]_vars

\* A producer thread calling send_head and then send_all on one BufReader, the
\* receiving half alive and nobody receiving yet.
InitHeadBody ==
    /\ now = 0 /\ deadline = 0
    /\ kind = "head_all" /\ input \in SeqsUpTo(Byte, MaxHead)
    /\ src = <<>> /\ parts = <<>>
    /\ pcP = "run" /\ queue = <<>> /\ rcvDropped = FALSE
    /\ op = "none" /\ pcC = "idle" /\ rem = 0 /\ recvDl = 0
    /\ data = <<>> /\ sink = <<>> /\ sinkOk = TRUE /\ result = "none"
    /\ sent = <<>> /\ prodDoneAt = -1 /\ readErr = FALSE /\ nRecv = 0
    /\ lateCall = FALSE /\ writeErr = FALSE
    /\ updates = <<>> /\ callAt = -1 /\ completed = FALSE /\ funcCalls = 0
    /\ hInput = input /\ hSrc = input /\ hBuf = <<>>
    /\ pcH = "run" /\ hErr = FALSE
    /\ ConnIdle
    /\ StreamIdle

NextHeadBody ==
    \/ ReadHead_Line
    \/ ReadHead_Err
    \/ SendHead
    \/ SendAll_Read
    \/ SendAll_Eof
    \/ SendAll_Err

SpecHeadBody == InitHeadBody /\ [][NextHeadBody]_vars

\* execute_with_deadline on any func, as in the test fn_execute_with_deadline.
InitExec ==
    /\ now = 0 /\ deadline \in 0..MaxTime
    /\ kind = "none" /\ input = <<>> /\ src = <<>> /\ parts = <<>>
    /\ pcP = "idle" /\ queue = <<>> /\ rcvDropped = FALSE
    /\ op = "execute" /\ pcC = "loop" /\ rem = 0 /\ recvDl = 0
    /\ data = <<>> /\ sink = <<>> /\ sinkOk = TRUE /\ result = "none"
    /\ sent = <<>> /\ prodDoneAt = -1 /\ readErr = FALSE /\ nRecv = 0
    /\ lateCall = FALSE /\ writeErr = FALSE
    /\ updates = <<>> /\ callAt = -1 /\ completed = FALSE /\ funcCalls = 0
    /\ HeadIdle
    /\ ConnIdle
    /\ StreamIdle

NextExec ==
    \/ Tick
    \/ ExecuteWithDeadline
    \/ Func_Return

SpecExec == InitExec /\ [][NextExec]_vars

\* Stream::new, with or without a connect timeout, on any resolution, and
\* the calls made on the Stream it returns.
InitConnect ==
    /\ resolves \in BOOLEAN
    /\ addrs \in SeqsUpTo(Outcome, MaxAddrs)
    /\ idx = 0
    /\ pcN = "resolve"
    /\ attempts = <<>>
    /\ connRes = NoRes
    /\ connect_timeout \in {"Some", "None"}
    /\ lastErr = NoRes
    /\ StreamIdle
    /\ PipeIdle
    /\ HeadIdle

NextConnect ==
    \/ Connect_Resolve
    \/ Connect_Attempt
    \/ Connect_NoAddress
    \/ StdConnect_Attempt
    \/ StdConnect_End
    \/ Stream_New
    \/ Stream_TryToHttps
    \/ Stream_SetReadTimeout
    \/ Stream_SetWriteTimeout
    \/ Stream_ReadWrite

SpecConnect == InitConnect /\ [][NextConnect]_vars

\* ---------------------------------------------------------------- claims
\* The chunk the consumer holds between recv_timeout and write_all.
InFlight == IF pcC = "write" THEN <<data>> ELSE <<>>

\* C1, as stated: when send_all has read all of its source and dropped its
\* sender before the deadline, and sink writes do not fail, receive_all
\* returns success with the sink equal to the source's bytes.
C1_RoundTripProducerBeatsDeadline ==
    (/\ pcC = "done" /\ op = "receive_all"
     /\ kind = "send_all" /\ pcP = "done" /\ ~readErr
     /\ prodDoneAt < deadline
     /\ sinkOk)
    => (result = "Ok" /\ sink = input)

\* C1, amended: when send_all reads its whole source and receive_all returns
\* with the deadline still ahead, and sink writes do not fail, receive_all
\* returns success and the sink holds exactly the source's bytes, however the
\* reads split them into chunks.
C1_RoundTrip ==
    (/\ pcC = "done" /\ op = "receive_all"
     /\ kind = "send_all" /\ ~readErr
     /\ now < deadline
     /\ sinkOk)
    => (result = "Ok" /\ sink = input /\ pcP = "done")

\* C1: a three-byte source went through in more than one chunk.
C1_Witness ==
    /\ pcC = "done" /\ op = "receive_all"
    /\ kind = "send_all" /\ ~readErr /\ sinkOk
    /\ now < deadline
    /\ Len(input) = MaxInput /\ Len(sent) >= 2
    /\ result = "Ok" /\ sink = input

\* C2: receive_all returns success only once the producer has finished and
\* every chunk it sent is in the sink.
C2_SuccessOnlyWhenProducerFinished ==
    (pcC = "done" /\ op = "receive_all" /\ result = "Ok")
    => (SenderDropped /\ queue = <<>> /\ sink = Concat(sent))

\* C3: receive called after its deadline, finding no chunk ready, does not
\* wait: recv_timeout fails at once, receive returns Timeout and the sink
\* is left untouched.
C3_LateReceiveTimesOut ==
    (op = "receive" /\ lateCall) =>
        /\ (pcC = "wait" /\ queue = <<>>)
               => RecvTimeout(queue, SenderDropped, now, recvDl)
                      \in {"Timeout", "Disconnected"}
        /\ (pcC = "done" /\ nRecv = 0)
               => (result = "Timeout" /\ sink = <<>>)

\* C3: a late receive returned on an empty channel whose sender is alive.
C3_Witness ==
    /\ op = "receive" /\ lateCall /\ pcC = "done" /\ nRecv = 0
    /\ pcP = "run" /\ sent = <<>>
    /\ result = "Timeout" /\ sink = <<>>

C5_Fifo ==
    ~writeErr =>
        \E k \in 0..Len(sent) :
            /\ sink = Concat(Take(sent, k))
            /\ InFlight \o queue = Drop(sent, k)

\* C5: two different chunks were sent, the first is in the sink and the
\* second still in the channel.
C5_Witness ==
    /\ ~writeErr /\ Len(sent) = 2 /\ sent[1] # sent[2]
    /\ sent[1] # <<>>
    /\ sink = sent[1] /\ queue = <<sent[2]>>

\* C6: receive takes at most one chunk off the channel; when it took one and
\* the write did not fail, it returns success, the sink is exactly the first
\* chunk sent, and the channel holds every later chunk, in order.
C6_ReceiveOneChunk ==
    op = "receive" =>
        /\ nRecv <= 1
        /\ (pcC = "done" /\ nRecv = 1 /\ ~writeErr)
               => (/\ result = "Ok"
                   /\ sink = sent[1]
                   /\ queue = Drop(sent, 1))

\* C6: receive returned with the first part in the sink and the second part
\* still queued.
C6_Witness ==
    /\ op = "receive" /\ pcC = "done" /\ result = "Ok"
    /\ Len(sent) = 2 /\ sent[1] # <<>> /\ sent[2] # <<>>
    /\ sink = sent[1] /\ queue = <<sent[2]>>

\* The ends of the blank lines of s: the positions i of an LF that, with the
\* CR before it, makes up a whole line.
BlankLineEnds(s) ==
    {i \in 2..Len(s) : /\ s[i - 1] = CR /\ s[i] = LF
                       /\ (i = 2 \/ s[i - 2] = LF)}

HasBlankLine(s) == BlankLineEnds(s) # {}

FirstBlankLineEnd(s) ==
    CHOOSE i \in BlankLineEnds(s) : \A j \in BlankLineEnds(s) : i <= j

\* C7: on a source that holds a blank line and whose reads do not fail,
\* read_head returns the bytes up to and including the first blank line and
\* leaves every byte after it in the reader.
C7_HeadUpToFirstBlankLine ==
    (pcH = "done" /\ ~hErr /\ HasBlankLine(hInput))
    => (/\ hBuf = Take(hInput, FirstBlankLineEnd(hInput))
        /\ hSrc = Drop(hInput, FirstBlankLineEnd(hInput)))

\* C7: a header line, the blank line, and a byte after it that stays unread.
C7_Witness ==
    /\ pcH = "done" /\ ~hErr /\ HasBlankLine(hInput)
    /\ FirstBlankLineEnd(hInput) > 2
    /\ hSrc # <<>>
    /\ hBuf \o hSrc = hInput

\* C8: read_head always returns exactly the bytes it took from the source;
\* on a source with no blank line whose reads do not fail, that is the whole
\* source.
C8_NoBlankLineWholeSource ==
    pcH = "done" =>
        /\ hBuf \o hSrc = hInput
        /\ (~hErr /\ ~HasBlankLine(hInput)) => (hBuf = hInput /\ hSrc = <<>>)

\* C8: a source with a line ending in CR LF but no blank line was returned
\* whole.
C8_Witness ==
    /\ pcH = "done" /\ ~hErr /\ ~HasBlankLine(hInput)
    /\ \E i \in 2..Len(hInput) : hInput[i - 1] = CR /\ hInput[i] = LF
    /\ hBuf = hInput

NonTimeoutFailure(o) == o \in {"Refused", "Unreachable"}

\* The candidates 0 .. n-1 in order.
InOrder(n) == [i \in 1..n |-> i - 1]

\* C9: candidates are attempted left to right; when the first n candidates
\* fail with non-timeout errors and the next one accepts, the connection to
\* that one is returned and no later candidate is attempted.
C9_FallbackToFirstAccepting ==
    /\ attempts = InOrder(Len(attempts))
    /\ \A n \in 0..(Len(addrs) - 1) :
          (/\ pcN = "done" /\ resolves /\ connect_timeout = "Some"
           /\ \A i \in 1..n : NonTimeoutFailure(addrs[i])
           /\ addrs[n + 1] = "Accept")
          => (connRes = OkRes(n) /\ attempts = InOrder(n + 1))

\* C9: the first candidate failed, the second accepted, the third was not
\* attempted.
C9_Witness ==
    /\ connect_timeout = "Some"
    /\ pcN = "done" /\ Len(addrs) = 3
    /\ NonTimeoutFailure(addrs[1]) /\ addrs[2] = "Accept"
    /\ connRes = OkRes(1) /\ attempts = <<0, 1>>

\* C10: an attempt that fails with a timeout is the last attempt, and its
\* error is what is returned.
C10_TimeoutIsFinal ==
    \A k \in 1..Len(attempts) :
        (connect_timeout = "Some" /\ addrs[attempts[k] + 1] = "TimedOut")
        => (/\ k = Len(attempts)
            /\ pcN = "done"
            /\ connRes = ErrRes("TimedOut", attempts[k]))

\* C10: a timeout on one candidate was returned although the next candidate
\* would have accepted.
C10_Witness ==
    /\ connect_timeout = "Some"
    /\ pcN = "done" /\ connRes.tag = "Err" /\ connRes.kind = "TimedOut"
    /\ connRes.at + 2 <= Len(addrs)
    /\ addrs[connRes.at + 2] = "Accept"

\* C11: when resolution yields a non-empty sequence whose candidates all
\* fail with non-timeout errors, every candidate is attempted once, in order,
\* and the error returned is the last candidate's.
C11_LastErrorWhenAllFail ==
    (/\ pcN = "done" /\ resolves /\ addrs # <<>>
     /\ \A i \in 1..Len(addrs) : NonTimeoutFailure(addrs[i]))
    => (/\ attempts = InOrder(Len(addrs))
        /\ connRes = ErrRes(addrs[Len(addrs)], Len(addrs) - 1))

\* C11: three candidates failed, the first and the last in different ways,
\* under a connect timeout.
C11_Witness ==
    /\ pcN = "done" /\ resolves /\ connect_timeout = "Some"
    /\ Len(addrs) = 3
    /\ \A i \in 1..3 : NonTimeoutFailure(addrs[i])
    /\ addrs[1] # addrs[3]
    /\ attempts = <<0, 1, 2>>
    /\ connRes = ErrRes(addrs[3], 2)

\* The errors that say no address could be resolved: connect_with_timeout's
\* AddrNotAvailable, TcpStream::connect's InvalidInput, and the error of
\* to_socket_addrs itself.
AddressResolution(res) ==
    /\ res.tag = "Err"
    /\ res.kind \in {"AddrNotAvailable", "InvalidInput", "Resolve"}
    /\ res.at = -1

\* C12: when resolution yields no candidate, no connect is attempted, the
\* error returned is a resolution error, and Stream::new yields no Stream.
C12_NoCandidateNoAttempt ==
    (pcN = "done" /\ (~resolves \/ addrs = <<>>))
    => (/\ attempts = <<>>
        /\ AddressResolution(connRes)
        /\ stream \in {"unborn", "failed"})

\* C12: connect_with_timeout returned its error for an empty address
\* sequence and Stream::new failed.
C12_Witness ==
    /\ pcN = "done" /\ resolves /\ addrs = <<>>
    /\ connect_timeout = "Some"
    /\ attempts = <<>>
    /\ connRes = ErrRes("AddrNotAvailable", -1)
    /\ stream = "failed"

\* C13: Stream::new yields Http; try_to_https returns its input's variant
\* when that is Https or the scheme is not "https", and Https when the input
\* is Http, the scheme "https" and the TLS setup succeeds; a Stream that has
\* been Https is never Http again.
C13_VariantMonotonic ==
    /\ (lastCall.name = "new" /\ connRes.tag = "Ok") => stream = "Http"
    /\ lastCall.name = "try_to_https" =>
          /\ (lastCall.in = "Https" \/ lastCall.scheme # "https")
                 => stream = lastCall.in
          /\ (lastCall.in = "Http" /\ lastCall.scheme = "https" /\ lastCall.tls)
                 => stream = "Https"
    /\ everHttps => stream # "Http"

\* C13: try_to_https was called with an http target on a Stream that is
\* Https, which stayed Https.
C13_Witness ==
    /\ everHttps /\ stream = "Https"
    /\ lastCall = Call("try_to_https", "Https", "http", TRUE)

\* The sum of a sequence of lengths.
RECURSIVE SumSeq(_)
SumSeq(ns) == IF ns = <<>> THEN 0 ELSE Head(ns) + SumSeq(Tail(ns))

\* The chunks receive_all_update has written whole to the sink so far.
WrittenChunks == nRecv - (IF pcC = "write" \/ writeErr THEN 1 ELSE 0)

\* C14: receive_all_update calls the progress callback once per chunk written
\* to the sink, and never for a chunk whose write failed, so the lengths it
\* reported add up to the bytes in the sink.
C14_UpdateOnlyAfterSuccessfulWrite ==
    op = "receive_all_update" =>
        /\ Len(updates) = WrittenChunks
        /\ SumSeq(updates) = Len(sink)

\* C18 as stated: func is never invoked at or after the deadline.
C18_NeverInvokedAtDeadline ==
    (op = "execute" /\ pcC = "func") => callAt < deadline

\* C18: execute_with_deadline passes func the time remaining at that pass,
\* never negative; func is invoked up to and including the instant of the
\* deadline (then with zero) and never after it; the loop ends as soon as
\* func returns complete, and otherwise only at a pass that finds the clock past
\* the deadline.
C18_InvokedUntilDeadlineExceeded ==
    op = "execute" =>
        /\ rem >= 0
        /\ pcC = "func" => (callAt <= deadline /\ rem = deadline - callAt)
        /\ completed => pcC = "done"
        /\ (pcC = "done" /\ ~completed) => (callAt > deadline /\ now > deadline)
        /\ (pcC = "loop" /\ funcCalls > 0) => ~completed

\* func is invoked at the very instant of the deadline, with nothing left.
C18_Witness ==
    /\ op = "execute" /\ pcC = "func"
    /\ callAt = deadline /\ rem = 0 /\ funcCalls > 1

\* The bytes of the input the producer has read so far.
ReadSoFar == Take(input, Len(input) - Len(src))

\* C15: after the consumer gave up on its deadline, the receiving half
\* possibly dropped, a producer in send_all ends only by end of input or by a
\* failed read of its source.
C15_ProducerEndsOnlyBySource ==
    (kind = "send_all" /\ pcC = "done" /\ ~writeErr /\ pcP # "run")
    => (pcP = "done" /\ (readErr \/ src = <<>>))

\* C16: send_all sends nothing for a failed read or at end of input, so what
\* it sent is what it read; once it has ended, a receive_all that returns
\* before its deadline without a failed write returns Ok with the sink holding
\* the bytes read, whether or not a read failed; the consumer returns nothing
\* but Ok, Timeout and IO.
C16_ProducerFailuresSilent ==
    /\ (kind = "send_all" /\ pcP \in {"run", "done"}) => Concat(sent) = ReadSoFar
    /\ (kind = "send_all" /\ op = "receive_all" /\ pcC = "done"
          /\ now < deadline /\ ~writeErr)
       => (pcP = "done" /\ result = "Ok" /\ sink = ReadSoFar)
    /\ (op # "none" /\ pcC = "done") => result \in {"Ok", "Timeout", "IO"}

\* A read failed with input left, and receive_all returned Ok before the
\* deadline with the part that had been read.
C16_Witness ==
    /\ kind = "send_all" /\ op = "receive_all" /\ pcC = "done"
    /\ readErr /\ src # <<>> /\ sink # <<>>
    /\ now < deadline /\ result = "Ok"

\* C17: send_head sends one chunk, read_head's result, which ends with the
\* first blank line of the input; send_all on the same reader then sends the
\* bytes after it, so the chunks put together are the input read so far, and
\* the whole input when no read fails.
C17_HeadThenBody ==
    kind = "head_all" =>
        /\ pcH # "sent" => sent = <<>>
        /\ pcH = "sent" =>
              /\ Len(sent) >= 1 /\ sent[1] = hBuf
              /\ src = hSrc => Len(sent) = 1
              /\ (~hErr /\ HasBlankLine(input))
                    => sent[1] = Take(input, FirstBlankLineEnd(input))
              /\ Concat(sent) = ReadSoFar
              /\ Concat(Tail(sent)) = Take(hSrc, Len(hSrc) - Len(src))
        /\ (pcP = "done" /\ ~readErr)
              => (Concat(sent) = input /\ Concat(Tail(sent)) = hSrc)

\* A head of a header line and a blank line, then a body, all sent.
C17_Witness ==
    /\ kind = "head_all" /\ pcP = "done" /\ ~hErr /\ ~readErr
    /\ HasBlankLine(input)
    /\ Len(sent) >= 2 /\ Len(sent[1]) > 2 /\ Len(sent[1]) < Len(input)

\* C19: every chunk send_all sends is not empty and not longer than BUF_SIZE,
\* and is the bytes of one read: the chunks sent are the bytes read, cut
\* where the reads ended.
C19_ChunkSizes ==
    (kind = "send_all" /\ pcP \in {"run", "done"}) =>
        /\ \A i \in 1..Len(sent) : Len(sent[i]) \in 1..BUF_SIZE
        /\ Concat(sent) = ReadSoFar
        /\ Len(sent) <= Len(ReadSoFar)

\* send_all has sent a full buffer and a shorter chunk, and has ended.
C19_Witness ==
    /\ kind = "send_all" /\ pcP = "done"
    /\ \E i \in 1..Len(sent) : Len(sent[i]) = BUF_SIZE
    /\ \E i \in 1..Len(sent) : Len(sent[i]) < BUF_SIZE

=============================================================================
